---- MODULE Spec2Model ----
(***************************************************************************)
(* compress_pdf (src/compress_pdf.py): one run of the PDF compressor as a  *)
(* state machine.  The PDF library (PyMuPDF) is the environment: the page  *)
(* image lists, the pixmap an image decodes to and the success or failure  *)
(* of fitz.Pixmap(doc, xref) and page.replace_image are its answers, drawn *)
(* nondeterministically.                                                   *)
(***************************************************************************)
EXTENDS Integers, Sequences, FiniteSets, TLC

VARIABLES
    input_exists,     \* os.path.exists(input_path)
    max_dimension,    \* parameter max_dimension
    quality,          \* parameter quality
    total_pages,      \* len(doc)
    doc_open,         \* fitz.open done and doc.close not yet
    pc,               \* position in compress_pdf
    i,                \* index of the page of the outer loop (0-based)
    image_list,       \* page.get_images(full=True) of the current page (xrefs)
    k,                \* position of the inner loop in image_list (1-based)
    pix,              \* the current pixmap, or None
    img_bytes,        \* the JPEG stream of the current pixmap, or None
    processed_xrefs,  \* the processed-set
    stream,           \* the document's stream of every image object
    output_file,      \* the file at output_path: None, or the saved streams
    out,              \* what was printed, in order
    hist              \* history of the run (observation only, never read by the code)

vars == <<input_exists, max_dimension, quality, total_pages, doc_open, pc, i,
          image_list, k, pix, img_bytes, processed_xrefs, stream,
          output_file, out, hist>>

----
\* Bounds of the model.
MaxPages == 2       \* pages of a document
MaxImgs == 2        \* entries of one page's image list
MaxXref == 2        \* image objects of a document
MaxSide == 6        \* largest width or height of an image
MaxM == 3           \* largest max_dimension

\* Program constants.
DefaultQuality == 30
RgbChannels == 3

\* Python's None: as a colorspace, and as the value of a variable.
None == "None"
Null == [null |-> TRUE]

\* The stream an image object has in the input document.
Original == [format |-> "original"]

\* The file at output_path before the run.
NoFile == [exists |-> FALSE]
Xrefs == 1 .. MaxXref

\* The colorspaces a pixmap can have; None is the pixmap of an image mask,
\* which has no colorspace.
Colorspaces == {"Gray", "RGB", "CMYK"}
csRGB == "RGB"

\* colorspace.n: the number of channels.
CsN(cs) == CASE cs = "Gray" -> 1
             [] cs = "RGB" -> RgbChannels
             [] cs = "CMYK" -> 4

\* What fitz.Pixmap(doc, xref) can return.
Pixmaps == [width : 1 .. MaxSide, height : 1 .. MaxSide,
            colorspace : Colorspaces \cup {None}]

\* The pixmaps of the images of the multi-page documents: the widest images,
\* of every colorspace.
DocPixmaps == {p \in Pixmaps : p.width = MaxSide /\ p.height = 1}

\* The image lists a page can have: image objects in any order, an object
\* possibly listed more than once.
RECURSIVE SeqsUpTo(_, _)
SeqsUpTo(S, n) ==
    IF n = 0 THEN {<<>>}
    ELSE LET shorter == SeqsUpTo(S, n - 1)
         IN shorter \cup {Append(s, x) : s \in {t \in shorter : Len(t) = n - 1}, x \in S}

ImageLists == SeqsUpTo(Xrefs, MaxImgs)

----
\* The pure steps of the per-image policy.

Range(list) == {list[n] : n \in 1 .. Len(list)}

Max(a, b) == IF a >= b THEN a ELSE b

RECURSIVE Pow2(_)
Pow2(n) == IF n = 0 THEN 1 ELSE 2 * Pow2(n - 1)

\* Faulty variant: the conversion to RGB is left out.
NeedsRGBNever(p) == FALSE

\* pix.colorspace.n > 3
NeedsRGB(p) == CsN(p.colorspace) > RgbChannels

\* fitz.Pixmap(fitz.csRGB, pix)
ToRGB(p) == [p EXCEPT !.colorspace = csRGB]

\* factor = max(pix.width, pix.height) // max_dimension
Factor(p, m) == Max(p.width, p.height) \div m

\* pix.shrink(factor).  Pixmap.shrink(n) of PyMuPDF divides width and height
\* by 2**n (fz_subsample_pixmap: (w + 2**n - 1) >> n); n < 1 is ignored.
Shrink(p, factor) ==
    IF factor < 1 THEN p
    ELSE [p EXCEPT !.width = (p.width + Pow2(factor) - 1) \div Pow2(factor),
                   !.height = (p.height + Pow2(factor) - 1) \div Pow2(factor)]

\* The downscale decision.
Downscale(p, m) ==
    IF Max(p.width, p.height) > m
    THEN IF Factor(p, m) > 1 THEN Shrink(p, Factor(p, m)) ELSE p
    ELSE p

\* pix.tobytes("jpg", jpg_quality=quality): the JPEG stream, described by
\* what it encodes.
ToBytes(p, q) == [format |-> "jpg", width |-> p.width, height |-> p.height,
                  colorspace |-> p.colorspace, jpg_quality |-> q]

\* Faulty variant: the processed-set is never consulted.
IsProcessedNever(S, x) == FALSE

\* xref in processed_xrefs
IsProcessed(S, x) == x \in S

\* Faulty variant: the xref is not added.
MarkNothing(S, x) == S

\* processed_xrefs.add(xref)
MarkProcessed(S, x) == S \cup {x}

\* Faulty variant: a failed materialization records the xref as processed.
OnPixmapErrorMark(S, x) == S \cup {x}

\* except Exception: continue -- the processed-set after fitz.Pixmap raised.
OnPixmapError(S, x) == S

\* page.replace_image(xref, stream=img_bytes) that succeeds.
ReplaceImage(s, x, b) == [s EXCEPT ![x] = b]

\* Faulty variant: the failed replacement has written the stream.
ReplaceFailedWrites(s, x, b) == [s EXCEPT ![x] = b]

\* page.replace_image that raises: the exception is passed over.
ReplaceFailed(s, x, b) == s

\* Faulty variant: the exception is not caught.
CaughtNothing(call) == FALSE

\* "except Exception" around fitz.Pixmap and around page.replace_image:
\* whatever the call raises is caught.
Caught(call) == TRUE

\* Faulty variant: the existence check always passes.
PathExistsAlways(exists) == TRUE

\* os.path.exists(input_path)
PathExists(exists) == exists

\* Faulty variant: the loop over the pages stops one page early.
PagesExhaustedEarly(index, n) == index + 1 >= n

\* The for loop over the pages ends when every page has been visited.
PagesExhausted(index, n) == index >= n

----
\* The state after the call, before the first statement.

\* replace_calls: the calls of page.replace_image per image; seen: the images
\* some visited page lists; mat_ok, mat_failed: the images fitz.Pixmap has
\* returned a pixmap for, has raised for; repl_failed: the images
\* replace_image has raised for; src, src_page: the current pixmap as it was
\* returned and the page it was returned on; raised_at: the call an exception
\* left compress_pdf from; saves: the calls of doc.save.
NoHist == [replace_calls |-> [x \in Xrefs |-> 0],
           seen |-> {},
           mat_ok |-> {},
           mat_failed |-> {},
           repl_failed |-> {},
           src |-> Null,
           src_page |-> 0,
           raised_at |-> None,
           saves |-> 0]

InitWith(Ms, Ns) ==
    /\ input_exists \in BOOLEAN
    /\ max_dimension \in Ms
    /\ quality \in {DefaultQuality}
    /\ total_pages \in Ns
    /\ doc_open = FALSE
    /\ pc = "start"
    /\ i = 0
    /\ image_list = <<>>
    /\ k = 1
    /\ pix = Null
    /\ img_bytes = Null
    /\ processed_xrefs = {}
    /\ stream = [x \in Xrefs |-> Original]
    /\ output_file = NoFile
    /\ out = <<>>
    /\ hist = NoHist

Init == InitWith({MaxM}, 0 .. MaxPages)

----
\* The statements of compress_pdf.

\* img[0] of the current entry of the inner loop.
xref == image_list[k]

\* if not os.path.exists(input_path): print(...); return
MissingFile ==
    /\ pc = "start"
    /\ ~PathExists(input_exists)
    /\ out' = Append(out, "Error: File not found: input_path")
    /\ pc' = "returned"
    /\ UNCHANGED <<input_exists, max_dimension, quality, total_pages, doc_open, i,
                   image_list, k, pix, img_bytes, processed_xrefs, stream,
                   output_file, hist>>

\* doc = fitz.open(input_path); processed_xrefs = set(); total_pages = len(doc)
OpenDoc ==
    /\ pc = "start"
    /\ PathExists(input_exists)
    /\ doc_open' = TRUE
    /\ processed_xrefs' = {}
    /\ i' = 0
    /\ pc' = "page"
    /\ UNCHANGED <<input_exists, max_dimension, quality, total_pages, image_list, k,
                   pix, img_bytes, stream, output_file, out, hist>>

\* for i, page in enumerate(doc): print progress; image_list = page.get_images(full=True)
NextPage(list) ==
    /\ pc = "page"
    /\ ~PagesExhausted(i, total_pages)
    /\ out' = Append(out, "Processing page")
    /\ image_list' = list
    /\ k' = 1
    /\ hist' = [hist EXCEPT !.seen = hist.seen \cup Range(list)]
    /\ pc' = "img"
    /\ UNCHANGED <<input_exists, max_dimension, quality, total_pages, doc_open, i,
                   pix, img_bytes, processed_xrefs, stream, output_file>>

\* The image list of the page is exhausted: on to the next page.
EndImageList ==
    /\ pc = "img"
    /\ k > Len(image_list)
    /\ i' = i + 1
    /\ pc' = "page"
    /\ UNCHANGED <<input_exists, max_dimension, quality, total_pages, doc_open,
                   image_list, k, pix, img_bytes, processed_xrefs, stream,
                   output_file, out, hist>>

\* if xref in processed_xrefs: continue
SkipProcessed ==
    /\ pc = "img"
    /\ k <= Len(image_list)
    /\ IsProcessed(processed_xrefs, xref)
    /\ k' = k + 1
    /\ UNCHANGED <<input_exists, max_dimension, quality, total_pages, doc_open, pc, i,
                   image_list, pix, img_bytes, processed_xrefs, stream, output_file,
                   out, hist>>

\* try: pix = fitz.Pixmap(doc, xref), which returns p
Materialize(p) ==
    /\ pc = "img"
    /\ k <= Len(image_list)
    /\ ~IsProcessed(processed_xrefs, xref)
    /\ pix' = p
    /\ hist' = [hist EXCEPT !.src = p, !.src_page = i,
                            !.mat_ok = hist.mat_ok \cup {xref}]
    /\ pc' = "colorspace"
    /\ UNCHANGED <<input_exists, max_dimension, quality, total_pages, doc_open, i,
                   image_list, k, img_bytes, processed_xrefs, stream, output_file,
                   out>>

\* try: pix = fitz.Pixmap(doc, xref)  except Exception: continue
MaterializeError ==
    /\ pc = "img"
    /\ k <= Len(image_list)
    /\ ~IsProcessed(processed_xrefs, xref)
    /\ IF Caught("Pixmap")
       THEN /\ hist' = [hist EXCEPT !.mat_failed = hist.mat_failed \cup {xref}]
            /\ k' = k + 1
            /\ pc' = "img"
       ELSE /\ hist' = [hist EXCEPT !.mat_failed = hist.mat_failed \cup {xref},
                                    !.raised_at = "Pixmap"]
            /\ k' = k
            /\ pc' = "raised"
    /\ processed_xrefs' = OnPixmapError(processed_xrefs, xref)
    /\ UNCHANGED <<input_exists, max_dimension, quality, total_pages, doc_open, i,
                   image_list, pix, img_bytes, stream, output_file, out>>

\* if pix.colorspace.n > 3: pix = fitz.Pixmap(fitz.csRGB, pix)
\* The statement is outside every try: on a pixmap without a colorspace,
\* pix.colorspace.n raises AttributeError, which leaves compress_pdf.
Colorspace ==
    /\ pc = "colorspace"
    /\ IF pix.colorspace = None
       THEN /\ pc' = "raised"
            /\ hist' = [hist EXCEPT !.raised_at = "colorspace"]
            /\ pix' = pix
       ELSE /\ pc' = "downscale"
            /\ pix' = IF NeedsRGB(pix) THEN ToRGB(pix) ELSE pix
            /\ hist' = hist
    /\ UNCHANGED <<input_exists, max_dimension, quality, total_pages, doc_open, i,
                   image_list, k, img_bytes, processed_xrefs, stream, output_file,
                   out>>

\* if max(pix.width, pix.height) > max_dimension: ... pix.shrink(factor)
DownscaleStep ==
    /\ pc = "downscale"
    /\ pix' = Downscale(pix, max_dimension)
    /\ pc' = "encode"
    /\ UNCHANGED <<input_exists, max_dimension, quality, total_pages, doc_open, i,
                   image_list, k, img_bytes, processed_xrefs, stream, output_file,
                   out, hist>>

\* img_bytes = pix.tobytes("jpg", jpg_quality=quality)
Encode ==
    /\ pc = "encode"
    /\ img_bytes' = ToBytes(pix, quality)
    /\ pc' = "replace"
    /\ UNCHANGED <<input_exists, max_dimension, quality, total_pages, doc_open, i,
                   image_list, k, pix, processed_xrefs, stream, output_file, out,
                   hist>>

\* try: page.replace_image(xref, stream=img_bytes)  except Exception: pass
\* processed_xrefs.add(xref); pix = None
Replace(ok) ==
    /\ pc = "replace"
    /\ ok \/ Caught("replace_image")
    /\ stream' = IF ok THEN ReplaceImage(stream, xref, img_bytes)
                 ELSE ReplaceFailed(stream, xref, img_bytes)
    /\ processed_xrefs' = MarkProcessed(processed_xrefs, xref)
    /\ pix' = Null
    /\ hist' = [hist EXCEPT !.replace_calls[xref] = hist.replace_calls[xref] + 1,
                            !.repl_failed = IF ok THEN hist.repl_failed
                                            ELSE hist.repl_failed \cup {xref},
                            !.src = Null, !.src_page = 0]
    /\ k' = k + 1
    /\ pc' = "img"
    /\ UNCHANGED <<input_exists, max_dimension, quality, total_pages, doc_open, i,
                   image_list, img_bytes, output_file, out>>

\* The outer loop is over: print("\nSaving compressed PDF...")
EndPages ==
    /\ pc = "page"
    /\ PagesExhausted(i, total_pages)
    /\ out' = Append(out, "Saving compressed PDF...")
    /\ pc' = "save"
    /\ UNCHANGED <<input_exists, max_dimension, quality, total_pages, doc_open, i,
                   image_list, k, pix, img_bytes, processed_xrefs, stream,
                   output_file, hist>>

\* doc.save(output_path, garbage=4, deflate=True, clean=True); doc.close()
Save ==
    /\ pc = "save"
    /\ output_file' = [exists |-> TRUE, streams |-> stream]
    /\ hist' = [hist EXCEPT !.saves = hist.saves + 1]
    /\ doc_open' = FALSE
    /\ pc' = "report"
    /\ UNCHANGED <<input_exists, max_dimension, quality, total_pages, i, image_list,
                   k, pix, img_bytes, processed_xrefs, stream, out>>

\* print the original size, the compressed size and the reduction
Report ==
    /\ pc = "report"
    /\ out' = out \o <<"Original size", "Compressed size", "Reduction">>
    /\ pc' = "done"
    /\ UNCHANGED <<input_exists, max_dimension, quality, total_pages, doc_open, i,
                   image_list, k, pix, img_bytes, processed_xrefs, stream,
                   output_file, hist>>

Next ==
    \/ MissingFile
    \/ OpenDoc
    \/ \E list \in ImageLists : NextPage(list)
    \/ EndImageList
    \/ SkipProcessed
    \/ \E p \in DocPixmaps : Materialize(p)
    \/ MaterializeError
    \/ Colorspace
    \/ DownscaleStep
    \/ Encode
    \/ \E ok \in BOOLEAN : Replace(ok)
    \/ EndPages
    \/ Save
    \/ Report

Spec == Init /\ [][Next]_vars

\* The run over a document of one page whose image list names one image
\* twice, for every pixmap the image can decode to and every max_dimension.
ImageInit == InitWith(1 .. MaxM, {1})

ImageNext ==
    \/ MissingFile
    \/ OpenDoc
    \/ NextPage(<<1, 1>>)
    \/ EndImageList
    \/ SkipProcessed
    \/ \E p \in Pixmaps : Materialize(p)
    \/ MaterializeError
    \/ Colorspace
    \/ DownscaleStep
    \/ Encode
    \/ \E ok \in BOOLEAN : Replace(ok)
    \/ EndPages
    \/ Save
    \/ Report

ImageSpec == ImageInit /\ [][ImageNext]_vars

----
\* Properties of the run.

Finished == pc \in {"done", "returned", "raised"}

AtEntry == pc = "img" /\ k <= Len(image_list)

Replaced(x) == stream[x] # Original

\* C1: no reference id is compressed twice.  In every state of a run every
\* xref has had at most one re-encode + page.replace_image step, an xref of
\* the processed-set has had exactly one, and a reference to an xref of the
\* processed-set is skipped leaving the streams, the processed-set and the
\* count of replacements as they were.
C1_NoDoubleCompression ==
    /\ [](\A x \in Xrefs :
            /\ hist.replace_calls[x] <= 1
            /\ (x \in processed_xrefs \/ Replaced(x)) => hist.replace_calls[x] = 1)
    /\ [][(AtEntry /\ xref \in processed_xrefs) =>
            /\ stream' = stream
            /\ processed_xrefs' = processed_xrefs
            /\ hist'.replace_calls = hist.replace_calls
            /\ pix' = pix /\ img_bytes' = img_bytes
            /\ pc' = "img" /\ k' = k + 1]_vars

\* C1 witness: the first entry of a later page names an image that an earlier
\* page has had replaced.
C1_Witness ==
    /\ pc = "img" /\ i > 0 /\ k = 1 /\ Len(image_list) >= 1
    /\ image_list[1] \in processed_xrefs
    /\ Replaced(image_list[1])
    /\ hist.replace_calls[image_list[1]] = 1

SrcDim == Max(hist.src.width, hist.src.height)
OutDim == Max(img_bytes.width, img_bytes.height)

CeilDiv(a, b) == (a + b - 1) \div b

\* C4: the downscale bound.  With d the largest dimension of the image and
\* f = floor(d / max_dimension): if f > 1 the encoded image is the image shrunk
\* by the integer factor f (each dimension divided by f, rounded down or up),
\* its largest dimension d / f; otherwise its dimensions are the image's.
C4_DownscaleBound ==
    pc = "replace" =>
        LET f == SrcDim \div max_dimension
        IN IF f > 1
           THEN /\ OutDim \in {SrcDim \div f, CeilDiv(SrcDim, f)}
                /\ img_bytes.width \in {Max(1, hist.src.width \div f), CeilDiv(hist.src.width, f)}
                /\ img_bytes.height \in {Max(1, hist.src.height \div f), CeilDiv(hist.src.height, f)}
           ELSE /\ img_bytes.width = hist.src.width
                /\ img_bytes.height = hist.src.height

\* C5: every image whose width or height is larger than max_dimension is
\* downscaled before it is re-encoded.
C5_LargerThanMaxIsDownscaled ==
    pc = "replace" =>
        ((hist.src.width > max_dimension \/ hist.src.height > max_dimension) =>
            (img_bytes.width < hist.src.width \/ img_bytes.height < hist.src.height))

\* C6: the colorspace invariant.  The image that is encoded, and the stream a
\* successful replacement stores, keeps the colorspace of a pixmap of 3 or
\* fewer channels and is RGB, of exactly 3 channels, for a pixmap of more; the
\* conversion is done when the downscale decision is taken, on a pixmap whose
\* dimensions are still those fitz.Pixmap returned.
C6_ColorspaceInvariant ==
    /\ [](/\ pc = "downscale" =>
                /\ CsN(pix.colorspace) <= RgbChannels
                /\ pix.width = hist.src.width /\ pix.height = hist.src.height
                /\ pix.colorspace = IF CsN(hist.src.colorspace) > RgbChannels
                                    THEN csRGB ELSE hist.src.colorspace
          /\ pc = "replace" =>
                IF CsN(hist.src.colorspace) <= RgbChannels
                THEN img_bytes.colorspace = hist.src.colorspace
                ELSE CsN(img_bytes.colorspace) = RgbChannels)
    /\ [][(pc = "replace" /\ stream'[xref] # stream[xref]) =>
            stream'[xref].colorspace =
                IF CsN(hist.src.colorspace) <= RgbChannels
                THEN hist.src.colorspace ELSE csRGB]_vars

\* C6 witness: a CMYK image, larger than max_dimension, encoded as RGB.
C6_Witness ==
    /\ pc = "replace"
    /\ hist.src.colorspace = "CMYK"
    /\ img_bytes.colorspace = csRGB
    /\ SrcDim > max_dimension

\* C7: when the input path does not exist the run prints the error and
\* returns at once: the document is never opened, no image is materialized or
\* replaced, nothing is saved, there is no output file, and nothing but the
\* error is printed.
C7_MissingInput ==
    ~input_exists =>
        /\ pc \in {"start", "returned"}
        /\ pc = "start" => (ENABLED MissingFile /\ ~ENABLED OpenDoc)
        /\ out = IF pc = "returned" THEN <<"Error: File not found: input_path">> ELSE <<>>
        /\ ~doc_open
        /\ hist.mat_ok = {} /\ hist.mat_failed = {} /\ hist.seen = {}
        /\ \A x \in Xrefs : hist.replace_calls[x] = 0 /\ ~Replaced(x)
        /\ hist.saves = 0
        /\ output_file = NoFile

\* C7 witness: the run on a missing input has returned.
C7_Witness == ~input_exists /\ pc = "returned" /\ Len(out) = 1

\* C8: the output file is written by one doc.save, after the loop over the
\* pages has ended: it exists only then, holds the final streams, no image
\* step follows the save, a finished run has saved once, and a run that an
\* exception left during the image processing has no output file.
C8_SavedOnceAfterAllImages ==
    /\ [](/\ hist.saves <= 1
          /\ output_file.exists <=> hist.saves = 1
          /\ pc \in {"report", "done"} <=> hist.saves = 1
          /\ hist.saves = 1 =>
                /\ i = total_pages
                /\ pix = Null
                /\ output_file.streams = stream
          /\ pc = "raised" => output_file = NoFile)
    /\ [][hist.saves = 1 =>
            /\ stream' = stream
            /\ processed_xrefs' = processed_xrefs
            /\ output_file' = output_file
            /\ hist'.replace_calls = hist.replace_calls]_vars

\* C8 witness: an exception leaves the run after an image was replaced; no
\* output file exists.
C8_Witness ==
    /\ pc = "raised"
    /\ \E x \in Xrefs : Replaced(x)
    /\ ~output_file.exists

\* C9: a page.replace_image that fails leaves every stream of the document
\* as it was, adds the xref to the processed-set, and the loop is at the next
\* entry.
C9_FailedReplaceLeavesStreams ==
    [][(pc = "replace" /\ xref \in hist'.repl_failed) =>
            /\ stream' = stream
            /\ processed_xrefs' = processed_xrefs \cup {xref}
            /\ output_file' = output_file
            /\ pc' = "img" /\ k' = k + 1 /\ i' = i /\ image_list' = image_list]_vars

\* C9 witness: an image whose replacement failed, still with its original
\* stream and in the processed-set, beside an image that was replaced.
C9_Witness ==
    \E x \in hist.repl_failed :
        /\ x \in processed_xrefs
        /\ ~Replaced(x)
        /\ \E y \in Xrefs \ {x} : Replaced(y)

\* C10: the processed-set only grows and is exactly the set of xrefs for which
\* fitz.Pixmap returned a pixmap and one replace_image call was made; the call
\* is made on the page the pixmap was returned on, and fitz.Pixmap returns a
\* pixmap for an xref at most once, so that page is the first on which its
\* materialization succeeded.
C10_ProcessedSet ==
    /\ [](/\ processed_xrefs =
                {x \in Xrefs : x \in hist.mat_ok /\ hist.replace_calls[x] = 1}
          /\ \A x \in Xrefs : hist.replace_calls[x] > 0 => x \in hist.mat_ok
          /\ pc = "replace" => hist.src_page = i)
    /\ [][/\ processed_xrefs \subseteq processed_xrefs'
          /\ (pc = "img" /\ pc' = "colorspace") => xref \notin hist.mat_ok
          /\ (pc = "replace" /\ pc' = "img") =>
                (hist.src_page = i /\ hist'.replace_calls[xref] = 1)]_vars

\* C10 witness: a replacement issued on a later page for an image whose
\* materialization had failed before.
C10_Witness ==
    /\ pc = "replace"
    /\ i > 0
    /\ xref \in hist.mat_failed
    /\ xref \notin processed_xrefs

====
